---- MODULE Spec2Model ----
(***************************************************************************)
(* Model of network/nmcli2.py: one reconciliation run of the nmcli2        *)
(* module against the nmcli command line tool.                             *)
(*                                                                         *)
(* Text is modelled structurally.  A property key is the tuple of its      *)
(* dot-separated segments ('wifi.ssid' is <<"wifi", "ssid">>), so that     *)
(* key.startswith('wifi.') is "at least two segments, the first is wifi".  *)
(* A value is a tuple of words, and Python's substring test is the         *)
(* contiguous-subsequence test.  A command line is the flat list of its    *)
(* arguments, as the code builds it.                                       *)
(***************************************************************************)
EXTENDS Naturals, Sequences, FiniteSets, TLC

VARIABLES
    params,     \* module.params and module.check_mode of each run
    pc,         \* position of each run in main()
    loc,        \* main()'s locals exist, is_type, is_active
    changed,    \* main()'s local changed
    result,     \* what the run reported: exit_json(changed=..) or fail_json
    msg,        \* which fail_json call ended the run
    cmds,       \* every command line handed to module.run_command, in order
    obsLog,     \* every tuple returned by con_exist_and_type, in order
    show,       \* the dictionary returned by _con_show
    diff,       \* the diff_cmd list computed by con_mod_diff
    world,      \* the profile as NetworkManager holds it, per run
    world0,     \* the profile as it was when the runs started
    tool,       \* the host: whether nmcli is installed, and the tool's answers so
                \* far (which invocations exited nonzero for a reason of its own,
                \* whether a created profile comes up at once)
    pair        \* how run 2 relates to run 1 ("none", "check", "state")

vars == <<params, pc, loc, changed, result, msg, cmds, obsLog, show, diff,
          world, world0, tool, pair>>

Runs == {1, 2}

(***************************************************************************)
(* Strings.                                                                *)
(***************************************************************************)
Tok(s) == <<s>>

\* a in b, for Python strings
IsSubstring(a, b) ==
    \E i \in 0..Len(b) :
        /\ i + Len(a) <= Len(b)
        /\ \A j \in 1..Len(a) : b[i + j] = a[j]

\* x in list
InList(x, list) == \E i \in 1..Len(list) : list[i] = x

\* list.index(x), counted from 1; 0 when x is not in the list
IndexOf(x, list) ==
    IF InList(x, list)
    THEN CHOOSE i \in 1..Len(list) :
             /\ list[i] = x
             /\ \A j \in 1..(i - 1) : list[j] # x
    ELSE 0

\* list.pop(i), the list that is left
PopAt(list, i) == [j \in 1..(Len(list) - 1) |-> IF j < i THEN list[j] ELSE list[j + 1]]

(***************************************************************************)
(* Program constants.                                                      *)
(***************************************************************************)
TypeChoices ==
    {"generic", "802-3-ethernet", "ethernet", "pppoe", "802-11-wireless",
     "wifi", "wimax", "gsm", "cdma", "infiniband", "adsl", "bluetooth", "vpn",
     "802-11-olpc-mesh", "olpc-mesh", "vlan", "bond", "team", "bridge",
     "bond-slave", "team-slave", "bridge-slave"}

StateChoices == {"present", "up", "absent", "down"}

\* the *-slave types the constructor refuses
RefusedTypes == {"bridge-slave"}

KMaster    == <<"connection", "master">>
KSlaveType == <<"connection", "slave-type">>
KIfname    == <<"connection", "interface-name">>
KIpv4Addr  == <<"ipv4", "addresses">>
KSsid      == <<"802-11-wireless", "ssid">>
KPsk       == <<"802-11-wireless-security", "psk">>
KWifiSsid  == <<"wifi", "ssid">>
KEthMtu    == <<"ethernet", "mtu">>
KMtu       == <<"802-3-ethernet", "mtu">>
KVlanId    == <<"vlan", "id">>
KUnknown   == <<"foo", "bar">>

Nmcli == Tok("/usr/bin/nmcli")
Name  == Tok("con1")

\* add_map: property key -> argument name of 'nmcli con add'
add_map ==
    (KIfname :> Tok("ifname")) @@
    (KWifiSsid :> Tok("ssid")) @@
    (KSsid :> Tok("ssid")) @@
    (<<"pppoe", "username">> :> Tok("username")) @@
    (<<"gsm", "apn">> :> Tok("apn")) @@
    (<<"bluetooth", "bdaddr">> :> Tok("addr")) @@
    (<<"vlan", "parent">> :> Tok("dev")) @@
    (KVlanId :> Tok("id")) @@
    (<<"vpn", "service-type">> :> Tok("vpn-type")) @@
    (Tok("802-11-olpc-mesh") :> Tok("ssid")) @@
    (Tok("olpc-mesh") :> Tok("ssid"))

(***************************************************************************)
(* Iteration order of Python's sets and dictionaries: a function of the    *)
(* keys, the same in every run.  KeyOrder stands for it.                   *)
(***************************************************************************)
KeyOrder ==
    <<KIpv4Addr, KSlaveType, KIfname, KMaster, KSsid, KPsk, KWifiSsid, KEthMtu,
      KMtu, KVlanId, KUnknown,
      <<"pppoe", "username">>, <<"gsm", "apn">>, <<"bluetooth", "bdaddr">>,
      <<"vlan", "parent">>, <<"vpn", "service-type">>, Tok("802-11-olpc-mesh"),
      Tok("olpc-mesh"),
      Tok("ifname"), Tok("ssid"), Tok("id"), Tok("dev"), Tok("username"),
      Tok("apn"), Tok("addr"), Tok("vpn-type")>>

InOrder(S) == SelectSeq(KeyOrder, LAMBDA k : k \in S)

(***************************************************************************)
(* NMCli.__init__: normalisation of the type and of the property keys.     *)
(***************************************************************************)
NormType(t) ==
    IF t = "wifi" THEN "802-11-wireless"
    ELSE IF t = "ethernet" THEN "802-3-ethernet"
    ELSE t

StartsWith(key, prefix) == Len(key) >= 2 /\ key[1] = prefix

\* key.replace(old + '.', new + '.', 1) for a key that starts with old + '.'
ReplacePrefix(key, new) == [key EXCEPT ![1] = new]

NormKey(key) ==
    IF StartsWith(key, "wifi") THEN ReplacePrefix(key, "802-11-wireless")
    ELSE IF StartsWith(key, "ethernet") THEN ReplacePrefix(key, "802-3-ethernet")
    ELSE key

\* the keys the loop of __init__ is to rewrite
Aliased(p) == {k \in DOMAIN p : NormKey(k) # k}

\* The loop rewrites the dictionary it iterates over.  Each rewrite pops a key
\* and inserts another, which uses up one more slot of the dictionary's table;
\* a dictionary of up to 5 keys has 8 slots and is rebuilt when 6 were used, a
\* larger one (up to 21 keys) has 32 and is rebuilt when 22 were used.  After
\* a rebuild the iteration goes on from its old position in the new table and
\* can pass over keys it has not seen.  This is the least number of rewrites
\* before a rebuild, for a dictionary of n keys.
RewritesBeforeRebuild(n) == IF n <= 5 THEN 6 - n ELSE 22 - n

\* the sets of aliased keys the loop can leave as they are
MaySkip(p) ==
    {L \in SUBSET Aliased(p) :
        \/ L = {}
        \/ Cardinality(L) + RewritesBeforeRebuild(Cardinality(DOMAIN p))
               <= Cardinality(Aliased(p))}

\* a rewritten key that meets its canonical form in the dictionary replaces a
\* value instead of adding a key: the dictionary has shrunk and the next step
\* of the iteration raises RuntimeError
SizeChanges(p, L) == \E q \in Aliased(p) \ L : NormKey(q) \in DOMAIN p

\* properties[new] = properties.pop(key) for every aliased key but those of L
NormProps(p, L) ==
    LET key(q) == IF q \in L THEN q ELSE NormKey(q)
    IN  [k \in {key(q) : q \in DOMAIN p} |-> p[CHOOSE q \in DOMAIN p : key(q) = k]]

\* the parameters after the normalisation of __init__
Normalized(p, L) ==
    [p EXCEPT !.type = NormType(p.type), !.properties = NormProps(p.properties, L)]

(***************************************************************************)
(* The command lines the module builds.                                    *)
(***************************************************************************)
\* con_exist_and_type
QueryCmd ==
    <<Nmcli, Tok("-t"), Tok("-m"), Tok("tab"), Tok("--fields"),
      Tok("connection.type,GENERAL.STATE"), Tok("con"), Tok("show"), Name>>

\* _con_show
ShowCmd(p) ==
    <<Nmcli, Tok("-t"), Tok("-m"), Tok("multi"), Tok("--fields"), Tok("common"),
      Tok("con"), Tok("show")>>
    \o (IF p.type = "802-11-wireless" THEN <<Tok("--show-secrets")>> ELSE <<>>)
    \o <<Name>>

\* con_mod_diff: cmd before the changed pairs are added
ModCmd == <<Nmcli, Tok("con"), Tok("mod"), Name>>

\* con_delete
DelCmd == <<Nmcli, Tok("con"), Tok("del"), Name>>

\* con_active
ActiveCmd(activate) ==
    <<Nmcli, Tok("con"), IF activate THEN Tok("up") ELSE Tok("down"), Name>>

\* _props_to_args: dictionary from argument name to value.  When several keys
\* of add_map give the same argument, the one iterated last stays.
PropsToArgs(p) ==
    LET keys  == InOrder(DOMAIN add_map \cap DOMAIN p.properties)
        flags == {add_map[keys[i]] : i \in 1..Len(keys)}
        last(f) == CHOOSE i \in 1..Len(keys) :
                       /\ add_map[keys[i]] = f
                       /\ \A j \in (i + 1)..Len(keys) : add_map[keys[j]] # f
    IN  [f \in flags |-> p.properties[keys[last(f)]]]

RECURSIVE Flatten(_)
\* list(itertools.chain.from_iterable(pairs))
Flatten(pairs) ==
    IF pairs = <<>> THEN <<>>
    ELSE <<Head(pairs)[1], Head(pairs)[2]>> \o Flatten(Tail(pairs))

\* con_add, wireless branch
WifiAddCmd(p) ==
    <<Nmcli, Tok("dev"), Tok("wifi"), Tok("connect"), p.properties[KSsid],
      Tok("name"), Name, Tok("password"),
      IF KPsk \in DOMAIN p.properties THEN p.properties[KPsk] ELSE Tok("INVALID")>>

\* con_add, generic branch
GenericAddCmd(p) ==
    LET args  == PropsToArgs(p)
        items == InOrder(DOMAIN args)
    IN  <<Nmcli, Tok("con"), Tok("add"), Tok("con-name"), Name, Tok("type"),
          Tok(p.type)>>
        \o Flatten([i \in 1..Len(items) |-> <<items[i], args[items[i]]>>])

IsWirelessType(t) == t \in {"wifi", "802-11-wireless"}

(***************************************************************************)
(* Which command a command line is.                                        *)
(***************************************************************************)
Kind(cmd) ==
    IF cmd[2] = Tok("-t") THEN (IF cmd[4] = Tok("tab") THEN "query" ELSE "show")
    ELSE IF cmd[2] = Tok("dev") THEN "add"
    ELSE cmd[3][1]      \* con mod | add | del | up | down

\* the (key, value) pairs of a 'con mod' command line, as a set
ModPairs(cmd) == {<<cmd[i], cmd[i + 1]>> : i \in {j \in 5..(Len(cmd) - 1) : j % 2 = 1}}

(***************************************************************************)
(* NetworkManager behind nmcli: the profile named Name.                    *)
(***************************************************************************)
Absent == [exists |-> FALSE, type |-> "", state |-> <<>>, props |-> <<>>]

Activated == <<"activ", "ated">>

\* the type NetworkManager stores for a type given to 'con add'
StoredType(t) ==
    IF t \in {"wifi", "802-11-wireless"} THEN "802-11-wireless"
    ELSE IF t \in {"ethernet", "802-3-ethernet"} THEN "802-3-ethernet"
    ELSE IF t \in {"olpc-mesh", "802-11-olpc-mesh"} THEN "802-11-olpc-mesh"
    ELSE IF t \in {"bond-slave", "team-slave", "bridge-slave"} THEN "802-3-ethernet"
    ELSE t

\* the properties 'con show' lists for a profile of a stored type
CommonKeys == {KMaster, KSlaveType, KIpv4Addr, KIfname}

Schema(t) ==
    CommonKeys \cup (IF t = "802-11-wireless" THEN {KSsid, KPsk} ELSE {})

\* value of argument f of an add command line, <<>> when it is not given
ArgOf(cmd, from, f) ==
    IF \E i \in from..(Len(cmd) - 1) : (i - from) % 2 = 0 /\ cmd[i] = f
    THEN cmd[1 + CHOOSE i \in from..(Len(cmd) - 1) : (i - from) % 2 = 0 /\ cmd[i] = f]
    ELSE <<>>

Created(cmd, up) ==
    IF cmd[2] = Tok("dev")
    THEN [exists |-> TRUE, type |-> "802-11-wireless",
          state |-> IF up THEN Activated ELSE <<>>,
          props |-> [k \in Schema("802-11-wireless") |->
                        IF k = KSsid THEN cmd[5]
                        ELSE IF k = KPsk THEN cmd[9]
                        ELSE <<>>]]
    ELSE [exists |-> TRUE, type |-> StoredType(cmd[7][1]),
          state |-> IF up THEN Activated ELSE <<>>,
          props |-> [k \in Schema(StoredType(cmd[7][1])) |->
                        IF k = KIfname THEN ArgOf(cmd, 8, Tok("ifname"))
                        ELSE IF k = KSsid THEN ArgOf(cmd, 8, Tok("ssid"))
                        ELSE <<>>]]

Modified(w, cmd) ==
    [w EXCEPT !.props =
        [k \in DOMAIN w.props |->
            IF \E pr \in ModPairs(cmd) : pr[1] = k
            THEN (CHOOSE pr \in ModPairs(cmd) : pr[1] = k)[2]
            ELSE w.props[k]]]

\* module.run_command(cmd) against profile w: the exit status, the output and
\* the profile afterwards.  fails: the tool exits nonzero for a reason of its
\* own; up: a created profile is activated at once.
RunCommand(w, cmd, fails, up) ==
    LET kind == Kind(cmd) IN
    IF fails THEN [rc |-> 1, out |-> <<>>, w |-> w]
    ELSE IF kind = "add" THEN [rc |-> 0, out |-> <<>>, w |-> Created(cmd, up)]
    ELSE IF ~w.exists THEN [rc |-> 10, out |-> <<>>, w |-> w]
    ELSE IF kind = "query"
        THEN [rc |-> 0,
              out |-> IF w.state = <<>> THEN <<Tok(w.type)>> ELSE <<Tok(w.type), w.state>>,
              w |-> w]
    ELSE IF kind = "show" THEN [rc |-> 0, out |-> w.props, w |-> w]
    ELSE IF kind = "del" THEN [rc |-> 0, out |-> <<>>, w |-> Absent]
    ELSE IF kind = "mod" THEN [rc |-> 0, out |-> <<>>, w |-> Modified(w, cmd)]
    ELSE IF kind = "up" THEN [rc |-> 0, out |-> <<>>, w |-> [w EXCEPT !.state = Activated]]
    ELSE [rc |-> 0, out |-> <<>>, w |-> [w EXCEPT !.state = <<>>]]

(***************************************************************************)
(* One run: the record s holds the run's params and locals, its commands   *)
(* so far and the profile.  Every handler maps s to the record after it.   *)
(* f[i] tells whether the i-th invocation the handler makes exits nonzero  *)
(* for a reason of the tool's own.                                         *)
(***************************************************************************)
\* module.fail_json(msg=...): the run ends in failure
FailJson(s, m) == [s EXCEPT !.pc = "failed", !.result = "failed", !.msg = m]

\* module.exit_json(changed=c)
ExitJsonWith(s, c) ==
    [s EXCEPT !.pc = "done", !.result = IF c THEN "changed" ELSE "unchanged"]

\* module.run_command(cmd): the command is recorded, the profile follows
Ran(s, cmd, res) == [s EXCEPT !.cmds = Append(@, cmd), !.world = res.w]

\* NMCli.__init__, then main() up to its first branch.  found: get_bin_path
\* finds nmcli; L: the aliased keys the loop passes over.
NMCliInit(s, found, L) ==
    LET p == s.params IN
    IF p.type \in RefusedTypes THEN FailJson(s, "slave-type")
    ELSE IF SizeChanges(p.properties, L)
    THEN FailJson([s EXCEPT !.params = [p EXCEPT !.type = NormType(p.type)]],
                  "RuntimeError")
    ELSE IF ~found
    THEN FailJson([s EXCEPT !.params = Normalized(p, L)], "nmcli-not-found")
    ELSE [s EXCEPT
            !.params = Normalized(p, L),
            !.pc = IF p.state \in {"present", "up", "down"} THEN "query1"
                   ELSE IF p.state \in {"absent"} THEN "query_absent"
                   ELSE "exit"]

\* what con_exist_and_type returns for exit status 0 and output out
ParseQuery(p, out) ==
    LET type == out[1][1] IN
    [exist     |-> TRUE,
     is_type   |-> type \in TypeChoices /\ p.type = type,
     is_active |-> Len(out) = 2 /\ IsSubstring(Tok("activ"), out[2])]

\* Faulty variant: the declared type is not looked at before deleting
AfterQuery_NoTypeCheck(ret) ==
    IF ret.exist THEN "delete" ELSE "add"

\* main() after the first con_exist_and_type of the present/up/down branch
AfterQuery(ret) ==
    IF ret.exist /\ ~ret.is_type THEN "delete"
    ELSE IF ~ret.exist THEN "add"
    ELSE "diff"

\* Faulty variant: exit status 10 is an error like any other nonzero status
QueryOutcome_NotFoundIsError(rc) == IF rc = 0 THEN "found" ELSE "error"

\* the three branches of con_exist_and_type on the exit status of the query
QueryOutcome(rc) ==
    IF rc = 10 THEN "absent" ELSE IF rc = 0 THEN "found" ELSE "error"

\* con_exist_and_type, and main()'s branch on what it returns
con_exist_and_type(s, f) ==
    LET res == RunCommand(s.world, QueryCmd, f[1], FALSE)
        t   == Ran(s, QueryCmd, res)
        ret == IF QueryOutcome(res.rc) = "absent"
               THEN [exist |-> FALSE, is_type |-> FALSE, is_active |-> FALSE]
               ELSE ParseQuery(s.params, res.out)
    IN  IF QueryOutcome(res.rc) = "error" THEN FailJson(t, "tool")
        ELSE [t EXCEPT
                !.loc = ret,
                !.obsLog = Append(@, ret),
                !.pc = IF s.pc = "query1" THEN AfterQuery(ret)
                       ELSE IF s.pc = "query2" THEN "diff"
                       ELSE IF ret.exist THEN "delete_absent" ELSE "exit"]

\* Faulty variant: exist is not reset after the delete
AfterDelete_KeepsExist(s) ==
    IF s.pc = "delete"
    THEN [s EXCEPT !.pc = "diff"]
    ELSE [s EXCEPT !.changed = TRUE, !.pc = "exit"]

\* Faulty variant: the delete of state=absent does not mark the run changed
AfterDelete_NoChanged(s) ==
    IF s.pc = "delete"
    THEN [s EXCEPT !.loc = [@ EXCEPT !.exist = FALSE, !.is_active = FALSE],
                   !.pc = "add"]
    ELSE [s EXCEPT !.pc = "exit"]

\* Faulty variant: after the delete the pass starts over with the query
AfterDelete_StartsOver(s) ==
    IF s.pc = "delete"
    THEN [s EXCEPT !.loc = [@ EXCEPT !.exist = FALSE, !.is_active = FALSE],
                   !.pc = "query1"]
    ELSE [s EXCEPT !.changed = TRUE, !.pc = "exit"]

\* main() after con_delete returned
AfterDelete(s) ==
    IF s.pc = "delete"
    THEN [s EXCEPT !.loc = [@ EXCEPT !.exist = FALSE, !.is_active = FALSE],
                   !.pc = "add"]
    ELSE [s EXCEPT !.changed = TRUE, !.pc = "exit"]

\* Faulty variant: con_delete without its check-mode return
con_delete_IgnoresCheckMode(s, f) ==
    LET res == RunCommand(s.world, DelCmd, f[1], FALSE)
        t   == Ran(s, DelCmd, res)
    IN  IF res.rc # 0 THEN FailJson(t, "tool") ELSE AfterDelete(t)

\* Faulty variant: the exit status of the delete is not looked at
con_delete_IgnoresRc(s, f) ==
    IF s.params.check_mode THEN AfterDelete(s)
    ELSE LET res == RunCommand(s.world, DelCmd, f[1], FALSE)
             t   == Ran(s, DelCmd, res)
         IN  AfterDelete(t)

\* con_delete
con_delete(s, f) ==
    IF s.params.check_mode THEN AfterDelete(s)
    ELSE LET res == RunCommand(s.world, DelCmd, f[1], FALSE)
             t   == Ran(s, DelCmd, res)
         IN  IF res.rc # 0 THEN FailJson(t, "tool") ELSE AfterDelete(t)

\* Faulty variant: the created profile is not inspected again
AfterAdd_NoReinspect(s) == [s EXCEPT !.changed = TRUE, !.pc = "diff"]

\* main() after con_add returned: changed = True, then the profile is
\* inspected again
AfterAdd(s) == [s EXCEPT !.changed = TRUE, !.pc = "query2"]

\* con_add
con_add(s, f, up) ==
    LET p == s.params IN
    IF p.check_mode THEN ExitJsonWith(s, TRUE)
    ELSE IF IsWirelessType(p.type) /\ KSsid \notin DOMAIN p.properties
    THEN FailJson(s, "ssid")
    ELSE LET cmd == IF IsWirelessType(p.type) THEN WifiAddCmd(p) ELSE GenericAddCmd(p)
             res == RunCommand(s.world, cmd, f[1], up)
             t   == Ran(s, cmd, res)
         IN  IF res.rc # 0 THEN FailJson(t, "tool") ELSE AfterAdd(t)

\* Faulty variant: the containment rule of ipv4.addresses applied to every key
DiffCmd_ContainedAnyKey(prop, shown) ==
    LET keys == InOrder(DOMAIN shown \cap DOMAIN prop)
        differs(k) ==
            /\ prop[k] # shown[k]
            /\ ~IsSubstring(prop[k], shown[k])
        kept == SelectSeq(keys, differs)
    IN  [i \in 1..Len(kept) |-> <<kept[i], prop[kept[i]]>>]

\* the diff_cmd list of con_mod_diff
DiffCmd(prop, shown) ==
    LET keys == InOrder(DOMAIN shown \cap DOMAIN prop)
        differs(k) ==
            /\ prop[k] # shown[k]
            /\ ~(k = KIpv4Addr /\ IsSubstring(prop[k], shown[k]))
        kept == SelectSeq(keys, differs)
    IN  [i \in 1..Len(kept) |-> <<kept[i], prop[kept[i]]>>]

\* Faulty variant: the separate invocation only for state present
SplitSlaveType_PresentOnly(cmd, state) ==
    /\ InList(KMaster, cmd)
    /\ InList(KSlaveType, cmd)
    /\ state \in {"present"}

\* Faulty variant: the separate invocation whatever the state
SplitSlaveType_AnyState(cmd, state) ==
    /\ InList(KMaster, cmd)
    /\ InList(KSlaveType, cmd)

\* whether con_mod_diff runs connection.slave-type separately
SplitSlaveType(cmd, state) ==
    /\ InList(KMaster, cmd)
    /\ InList(KSlaveType, cmd)
    /\ state \in {"present", "up"}

\* Faulty variant: state present/up activates without looking at is_active
AfterDiff_IgnoresActive(s) ==
    IF s.params.state \in {"down"} /\ s.loc.is_active THEN "active"
    ELSE IF ~(s.params.state \in {"down"}) THEN "active"
    ELSE "exit"

\* Faulty variant: state down deactivates without looking at is_active
AfterDiff_DownAlways(s) ==
    IF s.params.state \in {"down"} THEN "active"
    ELSE IF ~(s.params.state \in {"down"}) /\ ~s.loc.is_active THEN "active"
    ELSE "exit"

\* main() after con_mod_diff returned: the activation decision
AfterDiff(s) ==
    IF s.params.state \in {"down"} /\ s.loc.is_active THEN "active"
    ELSE IF ~(s.params.state \in {"down"}) /\ ~s.loc.is_active THEN "active"
    ELSE "exit"

\* Faulty variant: a non-empty list does not mark the run changed
DiffReturned_NoChanged(s, d) ==
    LET t == [s EXCEPT !.diff = d]
    IN  [t EXCEPT !.pc = AfterDiff(t)]

\* main() with the list con_mod_diff returned
DiffReturned(s, d) ==
    LET t == [s EXCEPT !.diff = d, !.changed = @ \/ Len(d) > 0]
    IN  [t EXCEPT !.pc = AfterDiff(t)]

\* Faulty variant: state=down is treated like check mode, nothing is modified
ReturnsEarly_Down(diff_cmd, p) ==
    Len(diff_cmd) = 0 \/ p.check_mode \/ p.state \in {"down"}

\* con_mod_diff's return before any modify: nothing differs, or check mode
ReturnsEarly(diff_cmd, p) == Len(diff_cmd) = 0 \/ p.check_mode

\* con_mod_diff (with _con_show)
con_mod_diff(s, f) ==
    LET p        == s.params
        showCmd  == ShowCmd(p)
        r1       == RunCommand(s.world, showCmd, f[1], FALSE)
        s1       == [Ran(s, showCmd, r1) EXCEPT !.show = r1.out]
        prop     == p.properties
        unknown  == DOMAIN prop \ (DOMAIN r1.out \cap DOMAIN prop)
        diff_cmd == DiffCmd(prop, r1.out)
        cmd0     == ModCmd \o Flatten(diff_cmd)
        split    == SplitSlaveType(cmd0, p.state)
        i        == IF split THEN IndexOf(KSlaveType, cmd0) ELSE 0
        cmd      == IF split THEN PopAt(PopAt(cmd0, i), i) ELSE cmd0
        pending  == IF split THEN ModCmd \o <<cmd0[i], cmd0[i + 1]>> ELSE ModCmd
        sd       == [s1 EXCEPT !.diff = diff_cmd]
        r2       == RunCommand(sd.world, cmd, f[2], FALSE)
        s2       == Ran(sd, cmd, r2)
        r3       == RunCommand(s2.world, pending, f[3], FALSE)
        s3       == Ran(s2, pending, r3)
    IN  IF r1.rc # 0 THEN FailJson(Ran(s, showCmd, r1), "tool")
        ELSE IF unknown # {} THEN FailJson(s1, "unknown")
        ELSE IF ReturnsEarly(diff_cmd, p) THEN DiffReturned(s1, diff_cmd)
        ELSE IF split /\ i + 1 > Len(cmd0) THEN FailJson(sd, "IndexError")
        ELSE IF r2.rc # 0 THEN FailJson(s2, "tool")
        ELSE IF i = 0 THEN DiffReturned(s2, diff_cmd)
        ELSE IF r3.rc # 0 THEN FailJson(s3, "tool")
        ELSE DiffReturned(s3, diff_cmd)

\* con_active, and main()'s changed = True after it
con_active(s, f) ==
    LET activate == ~(s.params.state \in {"down"})
        cmd      == ActiveCmd(activate)
        res      == RunCommand(s.world, cmd, f[1], FALSE)
        t        == Ran(s, cmd, res)
    IN  IF s.params.check_mode THEN [s EXCEPT !.changed = TRUE, !.pc = "exit"]
        ELSE IF res.rc # 0 THEN FailJson(t, "tool")
        ELSE [t EXCEPT !.changed = TRUE, !.pc = "exit"]

\* module.exit_json(changed=changed) at the end of main()
exit_json(s) == ExitJsonWith(s, s.changed)

(***************************************************************************)
(* The inputs of a run and the profiles it can meet.                       *)
(***************************************************************************)
VBr0     == Tok("br-vxlan")
VBridge  == Tok("bridge")
VAddr    == Tok("172.20.20.20/24")
VAddrAnn == <<"172.20.20.20/24", "(annotation)">>
VAddr2   == Tok("172.20.20.21/24")
VSsid    == Tok("MySSID")
VEth1    == Tok("eth1")

SpecTypes ==
    {"wifi", "802-11-wireless", "ethernet", "vlan", "olpc-mesh",
     "bridge-slave", "team-slave", "bond-slave"}

\* a desired property map holds at most MaxProps keys
MaxProps == 3

CandidateProps ==
    {<<>>,
     (KMaster :> VBr0) @@ (KSlaveType :> VBridge),
     (KMaster :> VBr0),
     (KSlaveType :> VBridge) @@ (KIpv4Addr :> VAddr),
     (KMaster :> VBr0) @@ (KSlaveType :> VBridge) @@ (KIpv4Addr :> VAddr),
     (KWifiSsid :> VSsid),
     (KIfname :> VEth1),
     (KUnknown :> Tok("x")),
     (KMaster :> VBr0) @@ (KSlaveType :> VBridge) @@ (KIpv4Addr :> VAddr)
         @@ (KIfname :> VEth1)}

SpecProps == {m \in CandidateProps : Cardinality(DOMAIN m) <= MaxProps}

ParamSpace ==
    [state : StateChoices, type : SpecTypes, properties : SpecProps,
     check_mode : BOOLEAN]

WorldTypes == {"802-11-wireless", "802-3-ethernet", "vlan", "802-11-olpc-mesh"}

WorldProps(t) ==
    {[k \in Schema(t) |->
        IF k = KMaster THEN ms[1]
        ELSE IF k = KSlaveType THEN ms[2]
        ELSE IF k = KIpv4Addr THEN a
        ELSE IF k = KIfname THEN VEth1
        ELSE IF k = KSsid THEN VSsid
        ELSE <<>>] :
     ms \in {<<<<>>, <<>>>>, <<VBr0, <<>>>>, <<VBr0, VBridge>>},
     a \in {VAddr, VAddrAnn, VAddr2}}

Worlds ==
    {Absent} \cup
    UNION {[exists : {TRUE}, type : {t}, state : {<<>>, Activated},
            props : WorldProps(t)] : t \in WorldTypes}

(***************************************************************************)
(* The state machine.                                                      *)
(***************************************************************************)
Fresh(p, w) ==
    [params |-> p, pc |-> "new",
     loc |-> [exist |-> FALSE, is_type |-> FALSE, is_active |-> FALSE],
     changed |-> FALSE, result |-> "running", msg |-> "", cmds |-> <<>>,
     obsLog |-> <<>>, show |-> <<>>, diff |-> <<>>, world |-> w]

Cur(r) ==
    [params |-> params[r], pc |-> pc[r], loc |-> loc[r], changed |-> changed[r],
     result |-> result[r], msg |-> msg[r], cmds |-> cmds[r], obsLog |-> obsLog[r],
     show |-> show[r], diff |-> diff[r], world |-> world[r]]

Start(s1, s2) ==
    LET s == <<s1, s2>> IN
    /\ params  = [r \in Runs |-> s[r].params]
    /\ pc      = [r \in Runs |-> s[r].pc]
    /\ loc     = [r \in Runs |-> s[r].loc]
    /\ changed = [r \in Runs |-> s[r].changed]
    /\ result  = [r \in Runs |-> s[r].result]
    /\ msg     = [r \in Runs |-> s[r].msg]
    /\ cmds    = [r \in Runs |-> s[r].cmds]
    /\ obsLog  = [r \in Runs |-> s[r].obsLog]
    /\ show    = [r \in Runs |-> s[r].show]
    /\ diff    = [r \in Runs |-> s[r].diff]
    /\ world   = [r \in Runs |-> s[r].world]
    /\ tool    \in [fate : {<<>>}, up : {"?"}, nmcli : BOOLEAN]

\* one run; run 2 does not take part
Init ==
    \E p \in ParamSpace, w \in Worlds :
        /\ pair = "none"
        /\ world0 = w
        /\ Start(Fresh(p, w), [Fresh(p, w) EXCEPT !.pc = "off"])

\* two runs from the same profile and with the same answers of the tool: run 1
\* in check mode and run 2 live, or run 1 with state present and run 2 with up
InitPair ==
    \E p \in ParamSpace, w \in Worlds, k \in {"check", "state"} :
        /\ pair = k
        /\ world0 = w
        /\ IF k = "check"
           THEN Start(Fresh([p EXCEPT !.check_mode = TRUE], w),
                      Fresh([p EXCEPT !.check_mode = FALSE], w))
           ELSE Start(Fresh([p EXCEPT !.state = "present"], w),
                      Fresh([p EXCEPT !.state = "up"], w))

Ended(r) == pc[r] \in {"done", "failed"}

\* run 2 starts when run 1 has ended
Turn(r) == r = 1 \/ Ended(1)

Commit(r, s) ==
    /\ params'  = [params  EXCEPT ![r] = s.params]
    /\ pc'      = [pc      EXCEPT ![r] = s.pc]
    /\ loc'     = [loc     EXCEPT ![r] = s.loc]
    /\ changed' = [changed EXCEPT ![r] = s.changed]
    /\ result'  = [result  EXCEPT ![r] = s.result]
    /\ msg'     = [msg     EXCEPT ![r] = s.msg]
    /\ cmds'    = [cmds    EXCEPT ![r] = s.cmds]
    /\ obsLog'  = [obsLog  EXCEPT ![r] = s.obsLog]
    /\ show'    = [show    EXCEPT ![r] = s.show]
    /\ diff'    = [diff    EXCEPT ![r] = s.diff]
    /\ world'   = [world   EXCEPT ![r] = s.world]
    /\ UNCHANGED <<world0, pair>>

\* The answers of the tool to the invocations a handler makes: those already
\* given to the other run at the same position, and new ones after them.
Answers(r, ext) == SubSeq(tool.fate \o ext, Len(cmds[r]) + 1, Len(tool.fate) + Len(ext))

Answered(r, s, ext) ==
    LET all == tool.fate \o ext
        n   == IF Len(s.cmds) > Len(tool.fate) THEN Len(s.cmds) ELSE Len(tool.fate)
    IN  SubSeq(all, 1, n)

\* the profile a run meets when it starts: in the pair "again" run 2 meets
\* what run 1 left behind
Meets(r) == IF pair = "again" /\ r = 2 THEN world[1] ELSE world[r]

Construct(r) ==
    /\ Turn(r)
    /\ pc[r] = "new"
    /\ \E L \in MaySkip(params[r].properties) :
            Commit(r, NMCliInit([Cur(r) EXCEPT !.world = Meets(r)], tool.nmcli, L))
    /\ UNCHANGED tool

ConExistAndType(r) ==
    /\ Turn(r)
    /\ pc[r] \in {"query1", "query2", "query_absent"}
    /\ \E ext \in [1..1 -> BOOLEAN] :
        LET s == con_exist_and_type(Cur(r), Answers(r, ext)) IN
        /\ Commit(r, s)
        /\ tool' = [tool EXCEPT !.fate = Answered(r, s, ext)]

ConDelete(r) ==
    /\ Turn(r)
    /\ pc[r] \in {"delete", "delete_absent"}
    /\ \E ext \in [1..1 -> BOOLEAN] :
        LET s == con_delete(Cur(r), Answers(r, ext)) IN
        /\ Commit(r, s)
        /\ tool' = [tool EXCEPT !.fate = Answered(r, s, ext)]

ConAdd(r) ==
    /\ Turn(r)
    /\ pc[r] = "add"
    /\ \E ext \in [1..1 -> BOOLEAN], u \in {"yes", "no"} :
        LET s == con_add(Cur(r), Answers(r, ext), u = "yes") IN
        /\ tool.up \in {"?", u}
        /\ Commit(r, s)
        /\ tool' = [tool EXCEPT
                        !.fate = Answered(r, s, ext),
                        !.up   = IF Len(s.cmds) > Len(cmds[r]) /\ s.pc # "failed"
                                 THEN u ELSE @]

ConModDiff(r) ==
    /\ Turn(r)
    /\ pc[r] = "diff"
    /\ \E ext \in [1..3 -> BOOLEAN] :
        LET s == con_mod_diff(Cur(r), Answers(r, ext)) IN
        /\ Commit(r, s)
        /\ tool' = [tool EXCEPT !.fate = Answered(r, s, ext)]

ConActive(r) ==
    /\ Turn(r)
    /\ pc[r] = "active"
    /\ \E ext \in [1..1 -> BOOLEAN] :
        LET s == con_active(Cur(r), Answers(r, ext)) IN
        /\ Commit(r, s)
        /\ tool' = [tool EXCEPT !.fate = Answered(r, s, ext)]

ExitJson(r) ==
    /\ Turn(r)
    /\ pc[r] = "exit"
    /\ Commit(r, exit_json(Cur(r)))
    /\ UNCHANGED tool

Next ==
    \/ \E r \in Runs : Construct(r)
    \/ \E r \in Runs : ConExistAndType(r)
    \/ \E r \in Runs : ConDelete(r)
    \/ \E r \in Runs : ConAdd(r)
    \/ \E r \in Runs : ConModDiff(r)
    \/ \E r \in Runs : ConActive(r)
    \/ \E r \in Runs : ExitJson(r)

Spec == Init /\ [][Next]_vars

SpecPair == InitPair /\ [][Next]_vars

\* a live run, and then a second live run with the same spec on the profile
\* the first one left behind
InitAgain ==
    \E p \in ParamSpace, w \in Worlds :
        /\ ~p.check_mode
        /\ pair = "again"
        /\ world0 = w
        /\ Start(Fresh(p, w), Fresh(p, w))

SpecAgain == InitAgain /\ [][Next]_vars

(***************************************************************************)
(* The comparison loop of con_mod_diff on its own: desired and observed    *)
(* maps drawn from all maps over DiffKeys and DiffValues, every desired    *)
(* key being an observed one.                                              *)
(***************************************************************************)
DiffKeys == {KMaster, KIpv4Addr, KIfname}

DiffValues == {<<>>, VAddr, VAddrAnn, VAddr2}

InitDiff ==
    \E o \in [DiffKeys -> DiffValues],
       d \in UNION {[S -> DiffValues] : S \in SUBSET DiffKeys} :
        LET p == [state |-> "present", type |-> "vlan", properties |-> d,
                  check_mode |-> FALSE]
            s == [Fresh(p, Absent) EXCEPT !.pc = "loop", !.show = o]
        IN  /\ pair = "none"
            /\ world0 = Absent
            /\ Start(s, [s EXCEPT !.pc = "off"])

DiffLoop ==
    /\ pc[1] = "loop"
    /\ diff' = [diff EXCEPT ![1] = DiffCmd(params[1].properties, show[1])]
    /\ pc' = [pc EXCEPT ![1] = "looped"]
    /\ UNCHANGED <<params, loc, changed, result, msg, cmds, obsLog, show,
                   world, world0, tool, pair>>

NextDiff == DiffLoop

SpecDiff == InitDiff /\ [][NextDiff]_vars

(***************************************************************************)
(* The normalisation of __init__ on its own, applied to a spec and then    *)
(* once more to its own result.  Run 1 normalises the input while run 2    *)
(* keeps the input as it was given; Again hands run 1's result to run 2,   *)
(* which normalises it in turn.  The value of a key is the key as given.   *)
(***************************************************************************)
NormKeys ==
    {KWifiSsid, <<"wifi", "mode">>, <<"wifi", "mtu">>, KEthMtu, KSsid, KIfname}

\* a spec given to the normalisation holds at most MaxNormKeys keys
MaxNormKeys == 4

NormInputs ==
    {[k \in S |-> k] : S \in {T \in SUBSET NormKeys : Cardinality(T) <= MaxNormKeys}}

InitNorm ==
    \E t \in {"wifi", "ethernet", "802-11-wireless", "vlan"}, d \in NormInputs :
        LET p == [state |-> "present", type |-> t, properties |-> d,
                  check_mode |-> FALSE]
        IN  /\ pair = "none"
            /\ world0 = Absent
            /\ Start([Fresh(p, Absent) EXCEPT !.pc = "norm"],
                     [Fresh(p, Absent) EXCEPT !.pc = "given"])

Normalize(r) ==
    /\ pc[r] = "norm"
    /\ \E L \in MaySkip(params[r].properties) :
        IF SizeChanges(params[r].properties, L)
        THEN /\ pc' = [pc EXCEPT ![r] = "failed"]
             /\ msg' = [msg EXCEPT ![r] = "RuntimeError"]
             /\ UNCHANGED params
        ELSE /\ pc' = [pc EXCEPT ![r] = "normed"]
             /\ params' = [params EXCEPT ![r] = Normalized(@, L)]
             /\ UNCHANGED msg
    /\ UNCHANGED <<loc, changed, result, cmds, obsLog, show, diff, world,
                   world0, tool, pair>>

Again ==
    /\ pc[1] = "normed" /\ pc[2] = "given"
    /\ params' = [params EXCEPT ![2] = params[1]]
    /\ pc' = [pc EXCEPT ![2] = "norm"]
    /\ UNCHANGED <<loc, changed, result, msg, cmds, obsLog, show, diff, world,
                   world0, tool, pair>>

NextNorm ==
    \/ \E r \in Runs : Normalize(r)
    \/ Again

SpecNorm == InitNorm /\ [][NextNorm]_vars

(***************************************************************************)
(* Properties.                                                             *)
(***************************************************************************)
\* positions of run r's invocations whose command is of a kind in K
Issued(r, K) == {i \in 1..Len(cmds[r]) : Kind(cmds[r][i]) \in K}

MutatingKinds == {"del", "add", "mod", "up", "down"}

\* no invocation so far exited nonzero for a reason of the tool's own
ToolFaithful == \A i \in 1..Len(tool.fate) : ~tool.fate[i]

\* C1: a run in check mode issues only the existence/type query and the
\* property dump: never create, modify, delete, activate or deactivate,
\* whatever the spec and whatever profile it meets.
C1_CheckModeReadOnly ==
    \A r \in Runs :
        params[r].check_mode => Issued(r, MutatingKinds) = {}

\* a check-mode run that met a profile of the desired type with property drift,
\* predicted a change and ended
C1_Witness ==
    /\ params[1].check_mode
    /\ pc[1] = "done"
    /\ result[1] = "changed"
    /\ Len(diff[1]) > 0
    /\ world0.exists
    /\ Len(cmds[1]) = 2

\* C2 (as claimed): with a faithful tool, the dry run and the live run started
\* from the same profile report the same changed value.
C2_DryRunPredictsLive ==
    (pair = "check" /\ Ended(1) /\ Ended(2) /\ ToolFaithful) =>
        /\ (result[1] = "changed") <=> (result[2] = "changed")
        /\ (result[1] = "unchanged") <=> (result[2] = "unchanged")

\* C3 (as claimed): a spec of type bridge-slave, team-slave or bond-slave fails
\* validation and no command at all is issued.
C3_SlaveTypesRefused ==
    \A r \in Runs :
        params[r].type \in {"bridge-slave", "team-slave", "bond-slave"} =>
            /\ cmds[r] = <<>>
            /\ pc[r] \in {"new", "off", "failed"}
            /\ pc[r] = "failed" => msg[r] = "slave-type"

\* C4 (as claimed): a run that fails on a property key the profile does not
\* list has issued no delete, create, modify, activate or deactivate.
C4_UnknownKeyBeforeAnyMutation ==
    \A r \in Runs :
        msg[r] = "unknown" => Issued(r, MutatingKinds) = {}

\* C4 (amended): a run that fails on a property key the profile does not list
\* has issued no modify, activate or deactivate.  It has issued no mutating
\* command at all when it is a dry run or when the first query reported the
\* profile present with the desired type; otherwise (live run, profile absent
\* or of another type) the create has been issued before the failure.
C4_UnknownKeyBeforeModify ==
    \A r \in Runs :
        msg[r] = "unknown" =>
            /\ Issued(r, {"mod", "up", "down"}) = {}
            /\ IF params[r].check_mode \/ (obsLog[r][1].exist /\ obsLog[r][1].is_type)
               THEN Issued(r, MutatingKinds) = {}
               ELSE Issued(r, {"add"}) # {}

\* a live run that met a profile of the desired type and failed on an unknown key
C4_Witness ==
    /\ msg[1] = "unknown"
    /\ ~params[1].check_mode
    /\ obsLog[1][1].exist
    /\ obsLog[1][1].is_type
    /\ Len(cmds[1]) = 2

IsPrefix(a, b) == Len(a) <= Len(b) /\ \A i \in 1..Len(a) : a[i] = b[i]

\* C5: a run with state=up issues the same commands, in the same order, and
\* ends with the same result (same changed value, or the same failure) as the
\* run with state=present on the same name, type, properties, check mode,
\* profile and answers of the tool.
C5_UpIsPresent ==
    pair = "state" =>
        /\ IsPrefix(cmds[2], cmds[1])
        /\ (Ended(1) /\ Ended(2)) =>
              /\ cmds[1] = cmds[2]
              /\ result[1] = result[2]
              /\ msg[1] = msg[2]

\* a present/up pair that ended after the split modification was applied
C5_Witness ==
    /\ pair = "state"
    /\ params[1].state = "present"
    /\ params[2].state = "up"
    /\ Ended(2)
    /\ result[2] = "changed"
    /\ Cardinality(Issued(2, {"mod"})) = 2

\* the profile the run met exists with the desired type, is active and holds
\* every desired property with the desired value
C6_Stable(r) ==
    /\ pc[r] \notin {"new", "off"}
    /\ params[r].state \in {"present", "up"}
    /\ world0.exists
    /\ world0.type = params[r].type
    /\ world0.state = Activated
    /\ \A k \in DOMAIN params[r].properties :
           k \in DOMAIN world0.props /\ world0.props[k] = params[r].properties[k]

\* C6: on a profile that exists with the desired type, without drift and
\* active, a run with state present or up issues no create, delete, modify,
\* activate or deactivate, and reports changed=false.
C6_StableNoChange ==
    \A r \in Runs :
        C6_Stable(r) =>
            /\ Issued(r, MutatingKinds) = {}
            /\ pc[r] = "done" => result[r] = "unchanged"

\* a live run on a stable profile with desired properties that ended
C6_Witness ==
    /\ C6_Stable(1)
    /\ ~params[1].check_mode
    /\ DOMAIN params[1].properties # {}
    /\ pc[1] = "done"
    /\ Len(cmds[1]) = 2

\* a live run with state present, up or down whose first query found no profile
C7_Absent(r) ==
    /\ ~params[r].check_mode
    /\ params[r].state \in {"present", "up", "down"}
    /\ Len(obsLog[r]) >= 1
    /\ ~obsLog[r][1].exist

\* C7: when the first query reports the profile absent, a live run issues
\* create once, as its second command, then the query again; the locals the
\* diff and the activation decision use are those of the second query; with
\* state present or up activate is issued (after the create) exactly when the
\* second query reported the profile inactive, and the run reports changed=true.
C7_CreateThenReinspect ==
    \A r \in Runs :
        C7_Absent(r) =>
            /\ Issued(r, {"add"}) \subseteq {2}
            /\ Issued(r, {"query"}) \subseteq {1, 3}
            /\ Issued(r, {"del"}) = {}
            /\ Len(cmds[r]) >= 2 => Issued(r, {"add"}) = {2}
            /\ Len(cmds[r]) >= 3 => Issued(r, {"query"}) = {1, 3}
            /\ \A i \in Issued(r, {"show", "mod", "up", "down"}) : i > 3
            /\ pc[r] \in {"query2", "diff", "active", "exit", "done"} =>
                   Issued(r, {"add"}) = {2}
            /\ pc[r] \in {"diff", "active", "exit", "done"} =>
                   /\ Issued(r, {"query"}) = {1, 3}
                   /\ Len(obsLog[r]) = 2
                   /\ loc[r] = obsLog[r][2]
            /\ pc[r] \in {"exit", "done"} =>
                   IF params[r].state = "down"
                   THEN /\ Issued(r, {"up"}) = {}
                        /\ (Issued(r, {"down"}) # {}) <=> obsLog[r][2].is_active
                   ELSE /\ Issued(r, {"down"}) = {}
                        /\ (Issued(r, {"up"}) # {}) <=> ~obsLog[r][2].is_active
            /\ pc[r] = "done" => result[r] = "changed"

\* a live run with state present created the profile, found it inactive and
\* activated it
C7_Witness ==
    /\ C7_Absent(1)
    /\ params[1].state = "present"
    /\ pc[1] = "done"
    /\ ~obsLog[1][2].is_active
    /\ Kind(cmds[1][2]) = "add"
    /\ Kind(cmds[1][Len(cmds[1])]) = "up"

\* a live run with state present, up or down whose first query found a profile
C8_Exists(r) ==
    /\ ~params[r].check_mode
    /\ params[r].state \in {"present", "up", "down"}
    /\ Len(obsLog[r]) >= 1
    /\ obsLog[r][1].exist

\* C8: when the profile exists with a declared type other than the desired
\* one, a live run issues delete and then create (its second and third
\* commands), no modify or activate/deactivate before the create, and reports
\* changed=true; when the declared type is the desired one it issues neither.
C8_RecreateOnTypeMismatch ==
    \A r \in Runs :
        C8_Exists(r) =>
            IF world0.type # params[r].type
            THEN /\ Issued(r, {"del"}) \subseteq {2}
                 /\ Issued(r, {"add"}) \subseteq {3}
                 /\ Len(cmds[r]) >= 2 => Issued(r, {"del"}) = {2}
                 /\ Len(cmds[r]) >= 3 => Issued(r, {"add"}) = {3}
                 /\ \A i \in Issued(r, {"mod", "up", "down"}) : i > 3
                 /\ pc[r] = "done" =>
                        /\ result[r] = "changed"
                        /\ Issued(r, {"del"}) = {2}
                        /\ Issued(r, {"add"}) = {3}
            ELSE Issued(r, {"del", "add"}) = {}

\* a live run replaced a profile of another type and ended
C8_Witness ==
    /\ C8_Exists(1)
    /\ world0.type # params[1].type
    /\ pc[1] = "done"
    /\ Kind(cmds[1][2]) = "del"
    /\ Kind(cmds[1][3]) = "add"
    /\ Issued(1, {"mod"}) # {}

\* C9: with state=absent a run issues the existence query once and nothing
\* else, except that a live run issues delete, right after the query, exactly
\* when the profile exists; it reports changed=true if the profile existed and
\* changed=false if it did not.
C9_AbsentOnlyDeletes ==
    \A r \in Runs :
        params[r].state = "absent" =>
            /\ Issued(r, {"add", "show", "mod", "up", "down"}) = {}
            /\ Issued(r, {"query"}) \subseteq {1}
            /\ Issued(r, {"del"}) \subseteq {2}
            /\ Issued(r, {"del"}) # {} => ~params[r].check_mode /\ obsLog[r][1].exist
            /\ pc[r] \in {"exit", "done"} =>
                   /\ Issued(r, {"query"}) = {1}
                   /\ (Issued(r, {"del"}) # {}) <=>
                          (~params[r].check_mode /\ obsLog[r][1].exist)
            /\ pc[r] = "done" =>
                   result[r] = IF obsLog[r][1].exist THEN "changed" ELSE "unchanged"

\* a live run with state=absent deleted an active profile and ended
C9_Witness ==
    /\ params[1].state = "absent"
    /\ ~params[1].check_mode
    /\ pc[1] = "done"
    /\ world0.state = Activated
    /\ cmds[1] = <<QueryCmd, DelCmd>>
    /\ result[1] = "changed"

\* the ChangeSet of run r holds a pair for key k
InChangeSet(r, k) == \E i \in 1..Len(diff[r]) : diff[r][i][1] = k

ChangeSet(r) == {diff[r][i] : i \in 1..Len(diff[r])}

\* the ChangeSet of a live run holds both connection.master and
\* connection.slave-type and the state is present or up
C10_Deferred(r) ==
    /\ InChangeSet(r, KMaster)
    /\ InChangeSet(r, KSlaveType)
    /\ params[r].state \in {"present", "up"}

First(S) == CHOOSE i \in S : \A j \in S : i <= j

C11_Drift(r) ==
    LET d == params[r].properties
        o == world0.props
    IN  {<<k, d[k]>> : k \in {x \in DOMAIN d :
            /\ d[x] # o[x]
            /\ ~(x = KIpv4Addr /\ IsSubstring(d[x], o[x]))}}

C11_Case(r) ==
    /\ ~params[r].check_mode
    /\ params[r].state = "down"
    /\ pc[r] \notin {"new", "off"}
    /\ obsLog[r] # <<>>
    /\ obsLog[r][1].exist /\ obsLog[r][1].is_type
    /\ DOMAIN params[r].properties \subseteq DOMAIN world0.props
    /\ C11_Drift(r) # {}

C11_DownStillReconciles ==
    \A r \in Runs : C11_Case(r) =>
        LET M == Issued(r, {"mod"})
            D == Issued(r, {"down"})
        IN  /\ Issued(r, {"up", "add", "del"}) = {}
            /\ Cardinality(M) <= 1
            /\ \A i \in M : ModPairs(cmds[r][i]) = C11_Drift(r)
            /\ \A j \in D : \E i \in M : i < j /\ ~tool.fate[i]
            /\ pc[r] \in {"active", "exit", "done"} => Cardinality(M) = 1
            /\ pc[r] = "done" =>
                    /\ result[r] = "changed"
                    /\ (D # {}) = obsLog[r][1].is_active

\* an active profile with differing values was modified, then deactivated
C11_Witness ==
    /\ C11_Case(1)
    /\ obsLog[1][1].is_active
    /\ pc[1] = "done"
    /\ Cardinality(Issued(1, {"mod"})) = 1
    /\ \E j \in Issued(1, {"down"}) : j = Len(cmds[1])

(***************************************************************************)
(* C12.  Every fatal condition aborts the pass.  An invocation that exits  *)
(* nonzero (other than the existence query answering 'not found') is the   *)
(* last invocation of its run and the run ends in failure; a validation    *)
(* failure ends the run in failure as well; a failed run reports failure,  *)
(* never a changed value, and issues nothing from then on.  So a failed    *)
(* delete is not followed by a create, a failed create not by a modify, a  *)
(* failed modify not by an activate or deactivate.                         *)
(***************************************************************************)
C12_Nonzero(r, i) == i <= Len(tool.fate) /\ tool.fate[i]

C12_Aborted(r) ==
    /\ \A i \in 1..Len(cmds[r]) : C12_Nonzero(r, i) =>
            /\ i = Len(cmds[r])
            /\ pc[r] = "failed"
            /\ msg[r] = "tool"
    /\ msg[r] \in {"slave-type", "nmcli-not-found", "unknown", "ssid", "tool", "IndexError"}
            => pc[r] = "failed"
    /\ msg[r] = "tool" => cmds[r] # <<>> /\ C12_Nonzero(r, Len(cmds[r]))
    /\ msg[r] = "ssid" => Issued(r, {"add", "mod", "up", "down"}) = {}
    /\ msg[r] = "unknown" => Issued(r, {"mod", "up", "down"}) = {}
    /\ msg[r] \in {"slave-type", "nmcli-not-found"} => cmds[r] = <<>>
    /\ (pc[r] = "failed") = (result[r] = "failed")

C12_FatalAborts ==
    /\ [](\A r \in Runs : C12_Aborted(r))
    /\ [][\A r \in Runs : pc[r] = "failed" =>
            /\ cmds'[r] = cmds[r]
            /\ pc'[r] = "failed"
            /\ result'[r] = "failed"]_vars

\* the delete of a mismatching profile failed and was the last invocation
C12_Witness ==
    /\ pc[1] = "failed"
    /\ msg[1] = "tool"
    /\ Len(cmds[1]) = 2
    /\ Kind(cmds[1][2]) = "del"
    /\ params[1].state \in {"present", "up", "down"}

(***************************************************************************)
(* C13.  The existence query has three outcomes.  'Not found' is not an    *)
(* error: the observation is exists = false and the run goes on to the     *)
(* create path (state present, up, down) or ends as a no-op (state         *)
(* absent).  Status 0 gives exists = true.  Any other nonzero status is    *)
(* fatal, and neither a create nor a delete follows it.                    *)
(***************************************************************************)
C13_QueryOutcomes ==
    \A r \in Runs : Len(cmds[r]) >= 1 =>
        /\ cmds[r][1] = QueryCmd
        /\ IF tool.fate[1]
           THEN /\ pc[r] = "failed"
                /\ cmds[r] = <<QueryCmd>>
                /\ obsLog[r] = <<>>
           ELSE /\ Len(obsLog[r]) >= 1
                /\ obsLog[r][1].exist = world0.exists
                /\ ~world0.exists =>
                     /\ ~obsLog[r][1].is_type /\ ~obsLog[r][1].is_active
                     /\ IF params[r].state = "absent"
                        THEN /\ cmds[r] = <<QueryCmd>>
                             /\ pc[r] \in {"exit", "done"}
                             /\ pc[r] = "done" => result[r] = "unchanged"
                        ELSE /\ pc[r] = "failed" => Len(cmds[r]) >= 2 \/ msg[r] = "ssid"
                             /\ Len(cmds[r]) >= 2 => Kind(cmds[r][2]) = "add"
                             /\ (params[r].check_mode /\ pc[r] = "done")
                                    => result[r] = "changed"
                             /\ pc[r] \in {"add", "query2", "diff", "active",
                                           "exit", "done", "failed"}
        \* the query after a create: any nonzero status ends the run
        /\ \A i \in Issued(r, {"query"}) \ {1} :
                tool.fate[i] => i = Len(cmds[r]) /\ pc[r] = "failed"

\* 'not found' on a live run with state present led to the create
C13_Witness ==
    /\ ~world0.exists
    /\ params[1].state = "present"
    /\ ~params[1].check_mode
    /\ Len(obsLog[1]) >= 1 /\ ~obsLog[1][1].exist
    /\ Len(cmds[1]) >= 2 /\ Kind(cmds[1][2]) = "add"
    /\ pc[1] = "done"

(***************************************************************************)
(* C14.  The diff computation.  For a desired map D and an observed map O  *)
(* with every key of D in O, the computed ChangeSet holds the pair         *)
(* (k, D[k]) exactly for the keys with D[k] # O[k], except that            *)
(* ipv4.addresses is left out when D[k] is contained in O[k]; a key with   *)
(* equal values never appears, no key outside D appears, and no key        *)
(* appears twice.                                                          *)
(***************************************************************************)
C14_DiffComputation ==
    pc[1] = "looped" =>
        LET D == params[1].properties
            O == show[1]
        IN  /\ \A k \in DOMAIN D :
                    <<k, D[k]>> \in ChangeSet(1) <=>
                        /\ D[k] # O[k]
                        /\ k = KIpv4Addr => ~IsSubstring(D[k], O[k])
            /\ \A pr \in ChangeSet(1) : pr[1] \in DOMAIN D /\ pr[2] = D[pr[1]]
            /\ Len(diff[1]) = Cardinality(ChangeSet(1))

\* ipv4.addresses contained in the observed value is left out while another
\* key, whose desired value is contained in the observed one too, is kept
C14_Witness ==
    /\ pc[1] = "looped"
    /\ DOMAIN params[1].properties = DiffKeys
    /\ params[1].properties[KIpv4Addr] = VAddr /\ show[1][KIpv4Addr] = VAddrAnn
    /\ params[1].properties[KMaster] = VAddr /\ show[1][KMaster] = VAddrAnn
    /\ params[1].properties[KIfname] = VAddr2 /\ show[1][KIfname] = VAddr2
    /\ ChangeSet(1) = {<<KMaster, VAddr>>}

(***************************************************************************)
(* C15.  Normalization resolves every alias and is idempotent.  After the  *)
(* normalization the type is never wifi or ethernet and no key starts with *)
(* 'wifi.' or 'ethernet.', however many such keys were given; every key    *)
(* given is there under its canonical prefix with its suffix and its value *)
(* (the other keys untouched), and nothing else is; normalizing the result *)
(* again yields the same spec.                                             *)
(***************************************************************************)
C15_Canonical(p) ==
    /\ p.type \notin {"wifi", "ethernet"}
    /\ \A k \in DOMAIN p.properties : k[1] \notin {"wifi", "ethernet"}

C15_NormalizationResolvesAliases ==
    /\ (pc[1] = "normed" /\ pc[2] = "given") =>
            LET raw == params[2].properties
                out == params[1].properties
                canon(q) == IF q[1] = "wifi" THEN <<"802-11-wireless", q[2]>>
                            ELSE IF q[1] = "ethernet" THEN <<"802-3-ethernet", q[2]>>
                            ELSE q
            IN  /\ C15_Canonical(params[1])
                /\ DOMAIN out = {canon(q) : q \in DOMAIN raw}
                /\ \A q \in DOMAIN raw : out[canon(q)] = raw[q]
                /\ params[2].type = "wifi" => params[1].type = "802-11-wireless"
                /\ params[2].type = "ethernet" => params[1].type = "802-3-ethernet"
                /\ params[2].type \notin {"wifi", "ethernet"}
                        => params[1].type = params[2].type
    /\ pc[2] = "normed" => params[2] = params[1]

(***************************************************************************)
(* C16.  The activation decision is taken at the end, from the most recent *)
(* observation.  A live run with state=down issues a deactivate exactly    *)
(* when that observation reported the profile active and never activates;  *)
(* a live run with state present or up issues an activate exactly when it  *)
(* reported the profile inactive and never deactivates.  The command is    *)
(* the last of the run, it marks the run changed, and no run issues more   *)
(* than one activate or deactivate.                                        *)
(***************************************************************************)
C16_ActivationDecision ==
    \A r \in Runs :
        LET U    == Issued(r, {"up"})
            D    == Issued(r, {"down"})
            last == obsLog[r][Len(obsLog[r])]
        IN  /\ Cardinality(U \cup D) <= 1
            /\ \A i \in U \cup D : i = Len(cmds[r])
            /\ U # {} => params[r].state \in {"present", "up"} /\ ~last.is_active
            /\ D # {} => params[r].state = "down" /\ last.is_active
            /\ (U \cup D # {} /\ pc[r] # "failed") => changed[r]
            /\ (U \cup D # {} /\ pc[r] = "done") => result[r] = "changed"
            /\ (~params[r].check_mode /\ pc[r] \in {"exit", "done"}
                    /\ params[r].state # "absent") =>
                    /\ obsLog[r] # <<>>
                    /\ params[r].state = "down" => ((D # {}) = last.is_active)
                    /\ params[r].state \in {"present", "up"}
                            => ((U # {}) = ~last.is_active)

\* a profile created inactive was activated as the last step of a live run
C16_Witness ==
    /\ ~params[1].check_mode
    /\ params[1].state = "up"
    /\ Len(obsLog[1]) = 2
    /\ ~obsLog[1][2].is_active
    /\ pc[1] = "done"
    /\ Issued(1, {"up"}) = {Len(cmds[1])}

(***************************************************************************)
(* C17.  The commands of a run go in one direction and nothing is retried: *)
(* query, optional delete, optional create followed by a second query,     *)
(* property dump, optional modify (with an optional second modify of       *)
(* connection.slave-type alone), optional activate or deactivate.  Delete, *)
(* create, activate and deactivate happen at most once, modify at most     *)
(* twice, a command that failed is the last one, and a run makes at most   *)
(* eight invocations.                                                      *)
(***************************************************************************)
C17_Stage(r, i) ==
    LET k == Kind(cmds[r][i]) IN
    IF k = "query" THEN (IF i = 1 THEN 1 ELSE 4)
    ELSE IF k = "del" THEN 2
    ELSE IF k = "add" THEN 3
    ELSE IF k = "show" THEN 5
    ELSE IF k = "mod" THEN 6
    ELSE 7

C17_OneDirection ==
    \A r \in Runs :
        LET n == Len(cmds[r]) IN
        /\ n <= 8
        /\ n >= 1 => Kind(cmds[r][1]) = "query"
        /\ \A i, j \in 1..n : i < j =>
                \/ C17_Stage(r, i) < C17_Stage(r, j)
                \/ /\ Kind(cmds[r][i]) = "mod" /\ Kind(cmds[r][j]) = "mod"
                   /\ j = i + 1
                   /\ Len(cmds[r][j]) = 6 /\ cmds[r][j][5] = KSlaveType
        /\ \A i \in Issued(r, {"query"}) : i > 1 => Kind(cmds[r][i - 1]) = "add"
        /\ \A K \in {{"del"}, {"add"}, {"up", "down"}, {"show"}} :
                Cardinality(Issued(r, K)) <= 1
        /\ Cardinality(Issued(r, {"mod"})) <= 2
        /\ Cardinality(Issued(r, {"query"})) <= 2
        /\ \A i \in 1..n : (i <= Len(tool.fate) /\ tool.fate[i]) => i = n

\* a run of the longest kind: query, delete, create, query, dump, two
\* modifies, activate
C17_Witness ==
    /\ pc[1] = "done"
    /\ Len(cmds[1]) = 8
    /\ Issued(1, {"del"}) = {2}
    /\ Issued(1, {"mod"}) = {6, 7}
    /\ Issued(1, {"up"}) = {8}

(***************************************************************************)
(* C18.  A wireless profile that has to be created (the first query found  *)
(* no profile, or one of another type) from desired properties without     *)
(* 802-11-wireless.ssid makes a live run fail before any mutating          *)
(* invocation: no create and no delete is issued in that run.  When the    *)
(* SSID is there, the create command carries a password argument: the      *)
(* desired psk if given, the placeholder otherwise.                        *)
(***************************************************************************)
C18_Case(r) ==
    /\ ~params[r].check_mode
    /\ pc[r] \notin {"new", "off"}
    /\ params[r].state \in {"present", "up", "down"}
    /\ IsWirelessType(params[r].type)
    /\ KSsid \notin DOMAIN params[r].properties
    /\ obsLog[r] # <<>>
    /\ ~(obsLog[r][1].exist /\ obsLog[r][1].is_type)

C18_SsidRequiredBeforeMutation ==
    \A r \in Runs :
        /\ C18_Case(r) =>
                /\ Issued(r, MutatingKinds) = {}
                /\ pc[r] \in {"delete", "add", "failed"}
                /\ (pc[r] = "failed" /\ cmds[r] = <<QueryCmd>> /\ ~tool.fate[1])
                        => msg[r] = "ssid"
        /\ \A i \in Issued(r, {"add"}) :
                (IsWirelessType(params[r].type) /\ KSsid \in DOMAIN params[r].properties)
                    => /\ Len(cmds[r][i]) = 9
                       /\ cmds[r][i][5] = params[r].properties[KSsid]
                       /\ cmds[r][i][8] = Tok("password")
                       /\ cmds[r][i][9] =
                            IF KPsk \in DOMAIN params[r].properties
                            THEN params[r].properties[KPsk] ELSE Tok("INVALID")

(***************************************************************************)
(* C19.  In every live run that finishes without failure the reported      *)
(* changed flag is true if and only if the run issued at least one         *)
(* mutating command (delete, create, modify, activate or deactivate).      *)
(***************************************************************************)
C19_ChangedIffMutated ==
    \A r \in Runs :
        (~params[r].check_mode /\ pc[r] = "done") =>
            /\ result[r] \in {"changed", "unchanged"}
            /\ (result[r] = "changed") = (Issued(r, MutatingKinds) # {})

\* a live run whose only mutating command was a modify reported changed
C19_Witness ==
    /\ ~params[1].check_mode
    /\ pc[1] = "done"
    /\ result[1] = "changed"
    /\ Issued(1, MutatingKinds) = {3}
    /\ Kind(cmds[1][3]) = "mod"

(***************************************************************************)
(* C20.  Convergence in one pass.  For every allowed type, the aliases     *)
(* wifi, ethernet and olpc-mesh included, and every initial profile: when  *)
(* a live run finishes without failure and the tool answers faithfully, a  *)
(* run with the same spec that follows it at once issues no mutating       *)
(* command and reports changed = false.                                    *)
(***************************************************************************)
C20_AllowedType(t) == t \notin {"bridge-slave", "team-slave", "bond-slave"}

C20_ConvergesInOnePass ==
    (/\ pair = "again"
     /\ C20_AllowedType(params[1].type)
     /\ pc[1] = "done"
     /\ ToolFaithful) =>
        /\ Issued(2, MutatingKinds) = {}
        /\ pc[2] # "failed"
        /\ pc[2] = "done" => result[2] = "unchanged"

====
